---- MODULE Spec2Model ----
(***************************************************************************)
(* CASPaxos replica (src/src/cas_paxos.rs) on a three node cluster.        *)
(*                                                                         *)
(* Every inbound envelope is handled by its own task (CASPaxos::run spawns *)
(* one per message on the multi-threaded runtime), so the handlers of one  *)
(* replica interleave at every access to the shared fields: the atomic     *)
(* highest_known_ballot_number, the role mutex and the state_machine       *)
(* mutex.  One action below is one such access (with the purely local work *)
(* and the transport send that follow it).                                 *)
(***************************************************************************)
EXTENDS Naturals, Integers, Sequences, FiniteSets, Bags, TLC

VARIABLES
    highest_known_ballot_number, \* CASPaxos.highest_known_ballot_number, per replica
    role,                        \* CASPaxos.role, per replica
    state_machine,               \* CASPaxos.state_machine, per replica
    role_lock,                   \* TRUE while a handler holds the role mutex across steps
    next_msg_id,                 \* the msg_id the transport of a replica stamps next
    net,                         \* bag of envelopes in flight
    tasks,                       \* bag of handler tasks that are past their first step
    sent,                        \* history: every envelope ever handed to the transport
    propose_log,                 \* history: per replica, the Propose broadcasts it made
    accept_log,                  \* history: per replica, the Accept broadcasts it made
    honoured,                    \* history: Promise / Accepted replies with what the handler saw at its start
    scenario,                    \* the client requests of this run (never changes)
    apply_state,                 \* apply_to_state_machine on its own: the state it is given next
    apply_log                    \* apply_to_state_machine on its own: its applications so far

replica_vars == <<highest_known_ballot_number, role, state_machine, role_lock, next_msg_id,
                  net, tasks, sent, propose_log, accept_log, honoured, scenario>>

apply_vars == <<apply_state, apply_log>>

vars == <<replica_vars, apply_vars>>

----------------------------------------------------------------------------
(* Cluster and client requests                                             *)

Nodes == {"n1", "n2", "n3"}

\* String order of the node ids ("n1" < "n2" < "n3"), as String::cmp gives it.
NodeRank == [n \in Nodes |-> CASE n = "n1" -> 1 [] n = "n2" -> 2 [] n = "n3" -> 3]

other_node_ids(n) == Nodes \ {n}

WriteOp(c, dest, id, k, v) ==
    [type |-> "Write", src |-> c, dest |-> dest, msg_id |-> id, key |-> k, value |-> v]

ReadOp(c, dest, id, k) ==
    [type |-> "Read", src |-> c, dest |-> dest, msg_id |-> id, key |-> k]

CasOp(c, dest, id, k, f, t) ==
    [type |-> "Cas", src |-> c, dest |-> dest, msg_id |-> id, key |-> k, from |-> f, to |-> t]

ClientOpTypes == {"Read", "Write", "Cas"}

\* The client requests a run draws from: a write of key 1 through n1, and a read of
\* key 1 through n1 or through n2.
ClientRequests ==
    { WriteOp("c1", "n1", 1, 1, 1),
      ReadOp("c2", "n1", 2, 1),
      ReadOp("c3", "n2", 3, 1) }

\* At most this many client requests in one run.
MaxClientOps == 2

\* The runs explored: the client requests that are in flight when the cluster starts.
Scenarios ==
    {S \in SUBSET ClientRequests : Cardinality(S) >= 1 /\ Cardinality(S) <= MaxClientOps}

----------------------------------------------------------------------------
(* KeyValueStore<usize, usize>: a map, here a function on the keys present *)

EmptyStore == [k \in {} |-> 0]

kv_write(s, key, value) ==
    [k \in (DOMAIN s) \cup {key} |-> IF k = key THEN value ELSE s[k]]

\* Mutant: a cas that does not compare the current value with from.
kv_cas_unchecked(s, key, from, to) ==
    IF key \notin DOMAIN s
        THEN [state |-> s, result |-> "KeyDoesNotExist"]
        ELSE [state |-> [s EXCEPT ![key] = to], result |-> "Ok"]

\* Result of KeyValueStore::cas: the store afterwards and Ok or the error code.
kv_cas(s, key, from, to) ==
    IF key \notin DOMAIN s
        THEN [state |-> s, result |-> "KeyDoesNotExist"]
        ELSE IF s[key] # from
            THEN [state |-> s, result |-> "PreconditionFailed"]
            ELSE [state |-> [s EXCEPT ![key] = to], result |-> "Ok"]

NoBody == [type |-> "None"]

ErrorBody(id, code) == [type |-> "Error", in_reply_to |-> id, code |-> code]

\* CASPaxos::apply_to_state_machine: the state afterwards and the reply body.
apply_to_state_machine(msg, s) ==
    CASE msg.type = "Read" ->
            IF msg.key \in DOMAIN s
                THEN [state |-> s,
                      body |-> [type |-> "ReadOk", in_reply_to |-> msg.msg_id,
                                value |-> s[msg.key]]]
                ELSE [state |-> s, body |-> ErrorBody(msg.msg_id, "KeyDoesNotExist")]
      [] msg.type = "Write" ->
            [state |-> kv_write(s, msg.key, msg.value),
             body |-> [type |-> "WriteOk", in_reply_to |-> msg.msg_id]]
      [] msg.type = "Cas" ->
            LET r == kv_cas(s, msg.key, msg.from, msg.to)
            IN  IF r.result = "Ok"
                    THEN [state |-> r.state,
                          body |-> [type |-> "CasOk", in_reply_to |-> msg.msg_id]]
                    ELSE [state |-> r.state, body |-> ErrorBody(msg.msg_id, r.result)]

----------------------------------------------------------------------------
(* Role                                                                    *)

Acceptor == [kind |-> "Acceptor"]

Proposer(op, lab, inbox, pending) ==
    [kind |-> "Proposer", op |-> op, last_accept_broadcast |-> lab,
     promises_inbox |-> inbox, acceptance_inbox |-> {},
     pending_client_repsonse_body |-> pending]

majority_count(n) == ((Cardinality(other_node_ids(n)) + 1) \div 2) + 1

\* Comparator of the sort of the promises: descending by ballot, then by node id.
PromiseBefore(a, b) ==
    \/ a[2] > b[2]
    \/ a[2] = b[2] /\ NodeRank[a[1]] > NodeRank[b[1]]

\* promises.sort_by(..).first(): the sort is stable, so among equal keys the
\* earliest entry of the inbox comes first.
FirstPromise(inbox) ==
    LET best(i) == \A j \in 1..Len(inbox) :
                       /\ ~PromiseBefore(inbox[j], inbox[i])
                       /\ (j < i => PromiseBefore(inbox[i], inbox[j]))
    IN  inbox[CHOOSE i \in 1..Len(inbox) : best(i)]

----------------------------------------------------------------------------
(* Transport (Node::send / Node::broadcast) and task bookkeeping           *)

Envelope(type, src, dest, id, ballot) ==
    [type |-> type, src |-> src, dest |-> dest, msg_id |-> id, ballot_number |-> ballot]

ValueEnvelope(type, src, dest, id, ballot, value) ==
    [type |-> type, src |-> src, dest |-> dest, msg_id |-> id, ballot_number |-> ballot,
     value |-> value]

\* CASPaxos::send_reject_ballot_number
RejectEnvelope(src, dest, id, in_reply_to) ==
    [type |-> "Error", src |-> src, dest |-> dest, msg_id |-> id,
     in_reply_to |-> in_reply_to, code |-> "PreconditionFailed"]

\* Node::broadcast: the body, under one msg_id, to every other node of the cluster.
Broadcast(src, type, ballot) ==
    {Envelope(type, src, d, next_msg_id[src], ballot) : d \in other_node_ids(src)}

BroadcastValue(src, type, ballot, value) ==
    {ValueEnvelope(type, src, d, next_msg_id[src], ballot, value) :
        d \in other_node_ids(src)}

\* Node::send / Node::broadcast: the call uses up the next msg_id of the replica.
StampMsgId(n) == next_msg_id' = [next_msg_id EXCEPT ![n] = @ + 1]

\* The envelope m is taken by its handler, which hands the envelopes ms to the transport.
Transport(m, ms) ==
    /\ net' = (net (-) SetToBag({m})) (+) SetToBag(ms)
    /\ sent' = sent \cup ms

Emit(ms) ==
    /\ net' = net (+) SetToBag(ms)
    /\ sent' = sent \cup ms

Spawn(t) == tasks' = tasks (+) SetToBag({t})
Finish(t) == tasks' = tasks (-) SetToBag({t})
Continue(t, u) == tasks' = (tasks (-) SetToBag({t})) (+) SetToBag({u})

\* The step takes the envelope m from the network / moves the task t on.
Taken(m) == CopiesIn(m, net') < CopiesIn(m, net)
Left(t) == CopiesIn(t, tasks') < CopiesIn(t, tasks)
Started(t) == CopiesIn(t, tasks') > CopiesIn(t, tasks)

Inflight(type) == {m \in BagToSet(net) : m.type = type}
Running(pc) == {t \in BagToSet(tasks) : t.pc = pc}

SetMax(S) == IF S = {} THEN 0 ELSE CHOOSE x \in S : \A y \in S : y <= x

\* History: the highest ballot for which replica n has sent a Promise so far.
MaxPromised(n) ==
    SetMax({m.ballot_number : m \in {x \in sent : x.type = "Promise" /\ x.src = n}})

\* History: the rounds <<proposer, ballot>> for which a majority of the cluster has
\* sent Accepted to the proposer.
AcceptedBy(p, b) ==
    {m.src : m \in {x \in sent : x.type = "Accepted" /\ x.dest = p /\ x.ballot_number = b}}

QuorumAccepted(p, b) == Cardinality(AcceptedBy(p, b)) >= majority_count(p)

CompletedRounds ==
    {r \in {<<m.dest, m.ballot_number>> : m \in {x \in sent : x.type = "Accepted"}} :
        QuorumAccepted(r[1], r[2])}

----------------------------------------------------------------------------
(* The comparisons and updates of the handlers                             *)

\* Mutant: a promise handler that also rejects the ballot it already knows.
PromiseRejectsEqual(known, ballot) == known >= ballot

\* promise: highest_known_ballot_number.load() > ballot_number
PromiseRejects(known, ballot) == known > ballot

\* promise: highest_known_ballot_number.store(ballot_number)
PromiseStore(known, ballot) == ballot

\* handle_promise_msg: highest_known_ballot_number.load() > ballot_number
PromiseMsgRejects(known, ballot) == known > ballot

\* Mutant: the majority test without the last_accept_broadcast guard.
MajorityIsReached(len, majority, last_accept_broadcast, ballot) ==
    len >= majority

\* handle_promise_msg: majority_is_reached_for_the_first_time
MajorityIsReachedForTheFirstTime(len, majority, last_accept_broadcast, ballot) ==
    len >= majority /\ last_accept_broadcast < ballot

\* accept: highest_known_ballot_number.load() > ballot_number
AcceptRejects(known, ballot) == known > ballot

\* accept: the match on the cloned role
AcceptIgnores(r) == r.kind = "Proposer"

\* Mutant: a propose that always starts its round with last_accept_broadcast 0.
ResetLastAcceptBroadcast(r) == 0

\* propose: the last_accept_broadcast the new Proposer starts with
CarriedLastAcceptBroadcast(r) ==
    IF r.kind = "Proposer" THEN r.last_accept_broadcast ELSE 0

\* propose: highest_known_ballot_number.fetch_add(1)
FetchAdd(known) == known + 1

----------------------------------------------------------------------------
(* promise: the handler of Propose{ballot_number}                          *)

\* load and compare; a lower ballot is rejected at once
PromiseLoad(m) ==
    LET n == m.dest
    IN  /\ m.type = "Propose"
        /\ IF PromiseRejects(highest_known_ballot_number[n], m.ballot_number)
              THEN /\ Transport(m, {RejectEnvelope(n, m.src, next_msg_id[n], m.msg_id)})
                   /\ StampMsgId(n)
                   /\ UNCHANGED tasks
              ELSE /\ Transport(m, {})
                   /\ Spawn([node |-> n, pc |-> "promise_store", src |-> m.src,
                             ballot_number |-> m.ballot_number,
                             seen |-> MaxPromised(n)])
                   /\ UNCHANGED next_msg_id
        /\ UNCHANGED <<highest_known_ballot_number, role, state_machine, role_lock,
                       propose_log, accept_log, honoured, scenario>>

PromiseStoreStep(t) ==
    /\ t.pc = "promise_store"
    /\ highest_known_ballot_number' =
           [highest_known_ballot_number EXCEPT
               ![t.node] = PromiseStore(@, t.ballot_number)]
    /\ Continue(t, [t EXCEPT !.pc = "promise_send"])
    /\ UNCHANGED <<role, state_machine, role_lock, next_msg_id, net, sent, propose_log,
                   accept_log, honoured, scenario>>

\* clone the state machine under its lock and send the Promise
PromiseSend(t) ==
    /\ t.pc = "promise_send"
    /\ Emit({ValueEnvelope("Promise", t.node, t.src, next_msg_id[t.node],
                           t.ballot_number, state_machine[t.node])})
    /\ StampMsgId(t.node)
    /\ honoured' = honoured \cup
           {[node |-> t.node, type |-> "Promise", ballot_number |-> t.ballot_number,
             seen |-> t.seen]}
    /\ Finish(t)
    /\ UNCHANGED <<highest_known_ballot_number, role, state_machine, role_lock,
                   propose_log, accept_log, scenario>>

----------------------------------------------------------------------------
(* propose: the handler of Read / Write / Cas                              *)

ProposeRole(m) ==
    LET n == m.dest
    IN  /\ m.type \in ClientOpTypes
        /\ ~role_lock[n]
        /\ role' = [role EXCEPT
               ![n] = Proposer(m, CarriedLastAcceptBroadcast(role[n]), <<>>, NoBody)]
        /\ net' = net (-) SetToBag({m})
        /\ Spawn([node |-> n, pc |-> "propose_fetch_add", incremented |-> 0])
        /\ UNCHANGED <<highest_known_ballot_number, state_machine, role_lock,
                       next_msg_id, sent, propose_log, accept_log, honoured, scenario>>

ProposeFetchAdd(t) ==
    LET n == t.node
    IN  /\ t.pc = "propose_fetch_add"
        /\ highest_known_ballot_number' =
               [highest_known_ballot_number EXCEPT ![n] = FetchAdd(@)]
        /\ Continue(t, [t EXCEPT !.pc = "propose_load",
                                 !.incremented = FetchAdd(highest_known_ballot_number[n])])
        /\ UNCHANGED <<role, state_machine, role_lock, next_msg_id, net, sent,
                       propose_log, accept_log, honoured, scenario>>

ProposeLoadBroadcast(t) ==
    LET n == t.node
        ballot_number == highest_known_ballot_number[n]
    IN  /\ t.pc = "propose_load"
        /\ Emit(Broadcast(n, "Propose", ballot_number))
        /\ StampMsgId(n)
        /\ propose_log' = [propose_log EXCEPT
               ![n] = Append(@, [ballot_number |-> ballot_number,
                                 incremented |-> t.incremented])]
        /\ Finish(t)
        /\ UNCHANGED <<highest_known_ballot_number, role, state_machine, role_lock,
                       accept_log, honoured, scenario>>

----------------------------------------------------------------------------
(* handle_promise_msg: the handler of Promise{ballot_number, value}        *)

\* The critical section on the role, up to the write of the state machine.  With a
\* first majority the role lock stays held for PromisePersist.
PromiseMsgLock(m) ==
    LET n == m.dest
        r == role[n]
        inbox == Append(r.promises_inbox, <<m.src, m.ballot_number, m.value>>)
        applied == apply_to_state_machine(r.op, FirstPromise(inbox)[3])
    IN  /\ m.type = "Promise"
        /\ ~role_lock[n]
        /\ net' = net (-) SetToBag({m})
        /\ IF r.kind = "Acceptor"
              THEN UNCHANGED <<role, role_lock, tasks>>
              ELSE IF PromiseMsgRejects(highest_known_ballot_number[n], m.ballot_number)
                  THEN /\ Spawn([node |-> n, pc |-> "promise_msg_reject", src |-> m.src,
                                 src_msg_id |-> m.msg_id])
                       /\ UNCHANGED <<role, role_lock>>
                  ELSE IF MajorityIsReachedForTheFirstTime(
                              Len(inbox), majority_count(n),
                              r.last_accept_broadcast, m.ballot_number)
                      THEN /\ role' = [role EXCEPT
                                  ![n].promises_inbox = inbox,
                                  ![n].last_accept_broadcast = m.ballot_number]
                           /\ role_lock' = [role_lock EXCEPT ![n] = TRUE]
                           /\ Spawn([node |-> n, pc |-> "promise_msg_persist",
                                     ballot_number |-> m.ballot_number,
                                     op |-> r.op,
                                     state |-> applied.state,
                                     body |-> applied.body,
                                     promises |-> inbox,
                                     prior |-> CompletedRounds])
                      ELSE /\ role' = [role EXCEPT ![n].promises_inbox = inbox]
                           /\ UNCHANGED <<role_lock, tasks>>
        /\ UNCHANGED <<highest_known_ballot_number, state_machine, next_msg_id, sent,
                       propose_log, accept_log, honoured, scenario>>

\* Mutant: a handle_promise_msg that keeps the role guard past the critical section.
PersistKeepsGuard(t) ==
    LET n == t.node
    IN  /\ t.pc = "promise_msg_persist"
        /\ state_machine' = [state_machine EXCEPT ![n] = t.state]
        /\ role' = [role EXCEPT ![n].pending_client_repsonse_body = t.body]
        /\ Continue(t, [t EXCEPT !.pc = "promise_msg_broadcast"])
        /\ UNCHANGED <<highest_known_ballot_number, role_lock, next_msg_id, net, sent,
                       propose_log, accept_log, honoured, scenario>>

\* *self.state_machine.lock() = state; set_pending_client_response_body; drop the guard
PromiseMsgPersist(t) ==
    LET n == t.node
    IN  /\ t.pc = "promise_msg_persist"
        /\ state_machine' = [state_machine EXCEPT ![n] = t.state]
        /\ role' = [role EXCEPT ![n].pending_client_repsonse_body = t.body]
        /\ role_lock' = [role_lock EXCEPT ![n] = FALSE]
        /\ Continue(t, [t EXCEPT !.pc = "promise_msg_broadcast"])
        /\ UNCHANGED <<highest_known_ballot_number, next_msg_id, net, sent, propose_log,
                       accept_log, honoured, scenario>>

PromiseMsgReject(t) ==
    /\ t.pc = "promise_msg_reject"
    /\ Emit({RejectEnvelope(t.node, t.src, next_msg_id[t.node], t.src_msg_id)})
    /\ StampMsgId(t.node)
    /\ Finish(t)
    /\ UNCHANGED <<highest_known_ballot_number, role, state_machine, role_lock,
                   propose_log, accept_log, honoured, scenario>>

\* Accept{ballot_number, value: self.state_machine.lock().clone()} to the peers
PromiseMsgBroadcast(t) ==
    LET n == t.node
    IN  /\ t.pc = "promise_msg_broadcast"
        /\ Emit(BroadcastValue(n, "Accept", t.ballot_number, state_machine[n]))
        /\ StampMsgId(n)
        /\ accept_log' = [accept_log EXCEPT
               ![n] = Append(@, [ballot_number |-> t.ballot_number,
                                 value |-> state_machine[n],
                                 op |-> t.op, state |-> t.state, body |-> t.body,
                                 promises |-> t.promises, prior |-> t.prior])]
        /\ Finish(t)
        /\ UNCHANGED <<highest_known_ballot_number, role, state_machine, role_lock,
                       propose_log, honoured, scenario>>

----------------------------------------------------------------------------
(* accept: the handler of Accept{ballot_number, value}                     *)

\* let role = self.role.lock().unwrap().clone(); a Proposer ignores the Accept
AcceptRole(m) ==
    LET n == m.dest
    IN  /\ m.type = "Accept"
        /\ ~role_lock[n]
        /\ net' = net (-) SetToBag({m})
        /\ IF AcceptIgnores(role[n])
              THEN UNCHANGED tasks
              ELSE Spawn([node |-> n, pc |-> "accept_load", src |-> m.src,
                          src_msg_id |-> m.msg_id, ballot_number |-> m.ballot_number, value |-> m.value,
                          seen |-> MaxPromised(n)])
        /\ UNCHANGED <<highest_known_ballot_number, role, state_machine, role_lock,
                       next_msg_id, sent, propose_log, accept_log, honoured, scenario>>

AcceptLoad(t) ==
    /\ t.pc = "accept_load"
    /\ IF AcceptRejects(highest_known_ballot_number[t.node], t.ballot_number)
          THEN /\ Emit({RejectEnvelope(t.node, t.src, next_msg_id[t.node], t.src_msg_id)})
               /\ StampMsgId(t.node)
               /\ Finish(t)
          ELSE /\ Continue(t, [t EXCEPT !.pc = "accept_store"])
               /\ UNCHANGED <<next_msg_id, net, sent>>
    /\ UNCHANGED <<highest_known_ballot_number, role, state_machine, role_lock,
                   propose_log, accept_log, honoured, scenario>>

\* Mutant: an accept handler that sends Accepted without storing the value.
AcceptWithoutStore(t) ==
    /\ t.pc = "accept_store"
    /\ Emit({Envelope("Accepted", t.node, t.src, next_msg_id[t.node], t.ballot_number)})
    /\ StampMsgId(t.node)
    /\ honoured' = honoured \cup
           {[node |-> t.node, type |-> "Accepted", ballot_number |-> t.ballot_number,
             seen |-> t.seen]}
    /\ Finish(t)
    /\ UNCHANGED <<highest_known_ballot_number, role, state_machine, role_lock,
                   propose_log, accept_log, scenario>>

\* *self.state_machine.lock() = value; then Accepted{ballot_number} to src
AcceptStore(t) ==
    /\ t.pc = "accept_store"
    /\ state_machine' = [state_machine EXCEPT ![t.node] = t.value]
    /\ Emit({Envelope("Accepted", t.node, t.src, next_msg_id[t.node], t.ballot_number)})
    /\ StampMsgId(t.node)
    /\ honoured' = honoured \cup
           {[node |-> t.node, type |-> "Accepted", ballot_number |-> t.ballot_number,
             seen |-> t.seen]}
    /\ Finish(t)
    /\ UNCHANGED <<highest_known_ballot_number, role, role_lock, propose_log,
                   accept_log, scenario>>

----------------------------------------------------------------------------
(* handle: the arms that do nothing                                        *)

\* Body::Accepted { ballot_number } => {}
HandleAccepted(m) ==
    /\ m.type = "Accepted"
    /\ net' = net (-) SetToBag({m})
    /\ UNCHANGED <<highest_known_ballot_number, role, state_machine, role_lock,
                   next_msg_id, tasks, sent, propose_log, accept_log, honoured, scenario>>

\* Body::Error { .. } => eprintln!(..)
HandleError(m) ==
    /\ m.type = "Error"
    /\ net' = net (-) SetToBag({m})
    /\ UNCHANGED <<highest_known_ballot_number, role, state_machine, role_lock,
                   next_msg_id, tasks, sent, propose_log, accept_log, honoured, scenario>>

----------------------------------------------------------------------------
(* CASPaxos::new on every node, the client requests in flight              *)

Init ==
    /\ highest_known_ballot_number = [n \in Nodes |-> 0]
    /\ role = [n \in Nodes |-> Acceptor]
    /\ state_machine = [n \in Nodes |-> EmptyStore]
    /\ role_lock = [n \in Nodes |-> FALSE]
    /\ next_msg_id = [n \in Nodes |-> 1]
    /\ scenario \in Scenarios
    /\ net = SetToBag(scenario)
    /\ tasks = EmptyBag
    /\ sent = {}
    /\ propose_log = [n \in Nodes |-> <<>>]
    /\ accept_log = [n \in Nodes |-> <<>>]
    /\ honoured = {}
    /\ apply_state = EmptyStore
    /\ apply_log = <<>>

Next ==
    \/ \E m \in BagToSet(net) : ProposeRole(m) /\ UNCHANGED apply_vars
    \/ \E t \in BagToSet(tasks) : ProposeFetchAdd(t) /\ UNCHANGED apply_vars
    \/ \E t \in BagToSet(tasks) : ProposeLoadBroadcast(t) /\ UNCHANGED apply_vars
    \/ \E m \in BagToSet(net) : PromiseLoad(m) /\ UNCHANGED apply_vars
    \/ \E t \in BagToSet(tasks) : PromiseStoreStep(t) /\ UNCHANGED apply_vars
    \/ \E t \in BagToSet(tasks) : PromiseSend(t) /\ UNCHANGED apply_vars
    \/ \E m \in BagToSet(net) : PromiseMsgLock(m) /\ UNCHANGED apply_vars
    \/ \E t \in BagToSet(tasks) : PromiseMsgPersist(t) /\ UNCHANGED apply_vars
    \/ \E t \in BagToSet(tasks) : PromiseMsgReject(t) /\ UNCHANGED apply_vars
    \/ \E t \in BagToSet(tasks) : PromiseMsgBroadcast(t) /\ UNCHANGED apply_vars
    \/ \E m \in BagToSet(net) : AcceptRole(m) /\ UNCHANGED apply_vars
    \/ \E t \in BagToSet(tasks) : AcceptLoad(t) /\ UNCHANGED apply_vars
    \/ \E t \in BagToSet(tasks) : AcceptStore(t) /\ UNCHANGED apply_vars
    \/ \E m \in BagToSet(net) : HandleAccepted(m) /\ UNCHANGED apply_vars
    \/ \E m \in BagToSet(net) : HandleError(m) /\ UNCHANGED apply_vars

Spec == Init /\ [][Next]_vars

----------------------------------------------------------------------------
(* apply_to_state_machine on its own: every request over the bounded keys  *)
(* and values, applied to every store over them                            *)

MaxKey == 2
MaxValue == 2
MaxMsgId == 2

Keys == 1..MaxKey
Values == 1..MaxValue
MsgIds == 1..MaxMsgId

Stores == UNION {[D -> Values] : D \in SUBSET Keys}

Requests ==
    {ReadOp("c1", "n1", id, k) : id \in MsgIds, k \in Keys}
    \cup {WriteOp("c1", "n1", id, k, v) : id \in MsgIds, k \in Keys, v \in Values}
    \cup {CasOp("c1", "n1", id, k, f, t) :
              id \in MsgIds, k \in Keys, f \in Values, t \in Values}

\* One application, and a second one to the state the first has left.
Apply(msg) ==
    LET r == apply_to_state_machine(msg, apply_state)
    IN  /\ Len(apply_log) < 2
        /\ apply_state' = r.state
        /\ apply_log' = Append(apply_log,
                            [op |-> msg, before |-> apply_state, state |-> r.state,
                             body |-> r.body])
        /\ UNCHANGED replica_vars

InitApply ==
    /\ highest_known_ballot_number = [n \in Nodes |-> 0]
    /\ role = [n \in Nodes |-> Acceptor]
    /\ state_machine = [n \in Nodes |-> EmptyStore]
    /\ role_lock = [n \in Nodes |-> FALSE]
    /\ next_msg_id = [n \in Nodes |-> 1]
    /\ scenario = {}
    /\ net = EmptyBag
    /\ tasks = EmptyBag
    /\ sent = {}
    /\ propose_log = [n \in Nodes |-> <<>>]
    /\ accept_log = [n \in Nodes |-> <<>>]
    /\ honoured = {}
    /\ apply_state \in Stores
    /\ apply_log = <<>>

NextApply == \E msg \in Requests : Apply(msg)

SpecApply == InitApply /\ [][NextApply]_vars

----------------------------------------------------------------------------
(* Properties                                                              *)

\* C1 (promise safety): once a replica has sent Promise{B}, a Propose{B'} or
\* Accept{B', _} with B' < B whose handler starts later is never honoured: the
\* replica sends no Promise{B'} and no Accepted{B'} for it.
PromiseSafety ==
    \A h \in honoured : h.ballot_number >= h.seen

\* C2 (ballot monotonicity): no step lowers a replica's highest_known_ballot_number.
BallotMonotonicity ==
    [][\A n \in Nodes :
          highest_known_ballot_number'[n] >= highest_known_ballot_number[n]]_vars

\* C3: highest_known_ballot_number is at least every ballot the replica has sent a
\* Promise or an Accepted for.
KnownBallotCoversReplies ==
    \A m \in sent :
        m.type \in {"Promise", "Accepted"}
            => highest_known_ballot_number[m.src] >= m.ballot_number

\* History: the rounds that got as far as broadcasting Accept.
Rounds ==
    UNION {{[node |-> n, ballot_number |-> accept_log[n][i].ballot_number,
             value |-> accept_log[n][i].value, op |-> accept_log[n][i].op,
             state |-> accept_log[n][i].state, body |-> accept_log[n][i].body,
             promises |-> accept_log[n][i].promises,
             prior |-> accept_log[n][i].prior] : i \in 1..Len(accept_log[n])}
           : n \in Nodes}

Completed(r) == QuorumAccepted(r.node, r.ballot_number)

Quiescent == net = EmptyBag /\ tasks = EmptyBag

\* C4 (single value per ballot): a replica broadcasts Accept at most once per ballot.
SingleAcceptPerBallot ==
    \A n \in Nodes : \A i, j \in 1..Len(accept_log[n]) :
        i # j => accept_log[n][i].ballot_number # accept_log[n][j].ballot_number

\* C4 witness: a proposer that has broadcast Accept at ballot B and has since
\* counted a further promise for B without broadcasting again.
SingleAcceptPerBallotWitness ==
    \E n \in Nodes :
        /\ role[n].kind = "Proposer"
        /\ Len(accept_log[n]) = 1
        /\ role[n].last_accept_broadcast = accept_log[n][1].ballot_number
        /\ Len(role[n].promises_inbox) > majority_count(n)
        /\ \A i \in 1..Len(role[n].promises_inbox) :
               role[n].promises_inbox[i][2] = role[n].last_accept_broadcast
        /\ Running("promise_msg_persist") = {}
        /\ Running("promise_msg_broadcast") = {}

\* C5: no two different replicas broadcast Propose with the same ballot, and no
\* acceptor promises one ballot to two different proposers.
DistinctProposersDistinctBallots ==
    /\ \A p, q \in Nodes : \A i \in 1..Len(propose_log[p]) : \A j \in 1..Len(propose_log[q]) :
           p # q => propose_log[p][i].ballot_number # propose_log[q][j].ballot_number
    /\ \A m, k \in sent :
           (m.type = "Promise" /\ k.type = "Promise" /\ m.src = k.src
                /\ m.ballot_number = k.ballot_number) => m.dest = k.dest

\* C6 (majority agreement): of two rounds that both reached quorum acceptance at
\* ballots B1 < B2 with no completed round in between, the Accept of the second
\* carries its op applied to the value of the first.
MajorityAgreement ==
    \A r1, r2 \in Rounds :
        (/\ Completed(r1) /\ Completed(r2)
         /\ r1.ballot_number < r2.ballot_number
         /\ ~\E r3 \in Rounds : /\ Completed(r3)
                                /\ r1.ballot_number < r3.ballot_number
                                /\ r3.ballot_number < r2.ballot_number)
            => r2.value = apply_to_state_machine(r2.op, r1.value).state

\* C7 (read visibility): a Read{k} round that reaches its promise quorum after the
\* only Write{k, v} round has completed with WriteOk produces ReadOk{v}.
ReadVisibility ==
    \A w, r \in Rounds :
        (/\ w.op.type = "Write" /\ w.body.type = "WriteOk"
         /\ r.op.type = "Read" /\ r.op.key = w.op.key
         /\ <<w.node, w.ballot_number>> \in r.prior
         /\ \A o \in Rounds \ {w} : o.op.type \notin {"Write", "Cas"})
            => r.body = [type |-> "ReadOk", in_reply_to |-> r.op.msg_id,
                         value |-> w.op.value]

\* C9 (client reply on quorum): with a single client request and every envelope
\* delivered and handled, a round that collected Accepted from a majority with a
\* reply stashed has delivered that reply to the client, and the replica is an
\* Acceptor again.
ClientReplyOnQuorum ==
    (Cardinality(scenario) = 1 /\ Quiescent) =>
        \A r \in Rounds :
            (Completed(r) /\ r.body # NoBody) =>
                /\ \E m \in sent : m.dest = r.op.src /\ m.type = r.body.type
                /\ role[r.node].kind = "Acceptor"

\* C10: every Propose a replica broadcasts carries the counter value its own
\* fetch_add produced, and no two of its Propose broadcasts carry the same ballot.
ProposeBallotsAreOwnIncrements ==
    \A n \in Nodes : \A i, j \in 1..Len(propose_log[n]) :
        /\ propose_log[n][i].ballot_number = propose_log[n][i].incremented
        /\ i # j => propose_log[n][i].ballot_number # propose_log[n][j].ballot_number

\* C11 (quorum before Accept): a replica broadcasts Accept{B, _} only when the
\* promises it counted come from at least majority_count distinct nodes, each of
\* them carrying ballot B.
AcceptNeedsDistinctQuorum ==
    \A r \in Rounds :
        Cardinality({r.promises[i][1] :
                        i \in {j \in 1..Len(r.promises) :
                                  r.promises[j][2] = r.ballot_number}})
            >= majority_count(r.node)

\* C12 (Accept carries the applied state): the value of every Accept broadcast is
\* the state the proposer computed under the role lock, its op applied to the
\* state of the selected promise.
AcceptCarriesAppliedState ==
    \A r \in Rounds :
        r.value = apply_to_state_machine(r.op, FirstPromise(r.promises)[3]).state

\* History: the envelope e answers an Accept: it is an Accepted, or an Error whose
\* in_reply_to is the msg_id of an Accept its sender was sent by its addressee.
AnswersAccept(e) ==
    \/ e.type = "Accepted"
    \/ /\ e.type = "Error"
       /\ \E a \in sent : /\ a.type = "Accept" /\ a.src = e.dest /\ a.dest = e.src
                          /\ a.msg_id = e.in_reply_to

\* C13 (a Proposer ignores Accept): in a step taken while the replica is a
\* Proposer, no handler of an Accept overwrites its state_machine or sends
\* Accepted or Error in answer to the Accept.
ProposerIgnoresAccept ==
    [][\A e \in sent' \ sent :
          role[e.src].kind = "Proposer" => ~AnswersAccept(e)]_vars

\* History: the ballot of the latest Propose broadcast of replica n (0 before the first).
OwnBallot(n) ==
    IF propose_log[n] = <<>> THEN 0
    ELSE propose_log[n][Len(propose_log[n])].ballot_number

\* History: replica n has sent a Promise for a ballot above that of its own round.
Preempted(n) == propose_log[n] # <<>> /\ MaxPromised(n) > OwnBallot(n)

\* History: the latest round of replica n has been accepted by a majority.
OwnRoundCompleted(n) == propose_log[n] # <<>> /\ QuorumAccepted(n, OwnBallot(n))

\* C14 (role reverts to Acceptor): once every envelope is handled, a replica whose
\* round was preempted or has completed is an Acceptor again.
RoleRevertsToAcceptor ==
    Quiescent =>
        \A n \in Nodes :
            (Preempted(n) \/ OwnRoundCompleted(n)) => role[n].kind = "Acceptor"

\* C15 (promise handler outcomes): the handler of Propose{B} from src with msg_id m
\* that finds B below highest_known_ballot_number sends Error{in_reply_to = m,
\* PreconditionFailed} to src and nothing else, and leaves the counter, the role and
\* the state machine alone; otherwise it sends no Error, stores B in the counter
\* and then sends Promise{B, the state machine as it is then} to src.
PromiseHandlerOutcomes ==
    [][/\ \A m \in Inflight("Propose") : Taken(m) =>
              IF m.ballot_number < highest_known_ballot_number[m.dest]
                  THEN /\ sent' \ sent =
                              {[type |-> "Error", src |-> m.dest, dest |-> m.src,
                                msg_id |-> next_msg_id[m.dest], in_reply_to |-> m.msg_id,
                                code |-> "PreconditionFailed"]}
                       /\ UNCHANGED <<highest_known_ballot_number, role, state_machine,
                                      tasks>>
                  ELSE /\ sent' = sent
                       /\ \E t \in BagToSet(tasks') :
                              /\ Started(t) /\ t.pc = "promise_store"
                              /\ t.node = m.dest /\ t.src = m.src
                              /\ t.ballot_number = m.ballot_number
       /\ \A t \in Running("promise_store") : Left(t) =>
              /\ highest_known_ballot_number'[t.node] = t.ballot_number
              /\ sent' = sent
              /\ Started([t EXCEPT !.pc = "promise_send"])
       /\ \A t \in Running("promise_send") : Left(t) =>
              sent' \ sent =
                  {[type |-> "Promise", src |-> t.node, dest |-> t.src,
                    msg_id |-> next_msg_id[t.node], ballot_number |-> t.ballot_number,
                    value |-> state_machine[t.node]]}
      ]_vars

\* C15 witness: a replica has answered one Propose with a Promise and a later,
\* lower one with the Error that names it.
PromiseHandlerOutcomesWitness ==
    \E e, q \in sent :
        /\ e.type = "Error" /\ q.type = "Promise" /\ q.src = e.src
        /\ \E m \in sent : /\ m.type = "Propose" /\ m.src = e.dest /\ m.dest = e.src
                           /\ m.msg_id = e.in_reply_to
                           /\ m.ballot_number < q.ballot_number

\* C16 (a preempted proposer never advances): no replica broadcasts Accept{B, _} in
\* a step in which its highest_known_ballot_number is above B because it has
\* promised a ballot above B.
NoAcceptBelowKnownBallot ==
    [][\A e \in sent' \ sent :
          e.type = "Accept" =>
              \/ highest_known_ballot_number[e.src] <= e.ballot_number
              \/ MaxPromised(e.src) <= e.ballot_number]_vars

\* C17 (last_accept_broadcast is carried over and never decreases): a replica
\* enters Proposer from Acceptor with last_accept_broadcast 0; a propose on a
\* Proposer replaces op, promises, acceptances and the pending reply and keeps
\* last_accept_broadcast; its only other change is a rise to the ballot of the
\* Accept the handler is about to broadcast; and a promise for a ballot not above
\* last_accept_broadcast starts no Accept broadcast.
LastAcceptBroadcastCarried ==
    [][\A n \in Nodes :
          /\ (role[n].kind = "Acceptor" /\ role'[n].kind = "Proposer")
                 => role'[n].last_accept_broadcast = 0
          /\ (role[n].kind = "Proposer" /\ role'[n].kind = "Proposer") =>
                 /\ \A m \in BagToSet(net) :
                        (m.type \in ClientOpTypes /\ m.dest = n /\ Taken(m)) =>
                            role'[n] = [kind |-> "Proposer", op |-> m,
                                        last_accept_broadcast |->
                                            role[n].last_accept_broadcast,
                                        promises_inbox |-> <<>>,
                                        acceptance_inbox |-> {},
                                        pending_client_repsonse_body |-> NoBody]
                 /\ \/ role'[n].last_accept_broadcast = role[n].last_accept_broadcast
                    \/ /\ role'[n].last_accept_broadcast > role[n].last_accept_broadcast
                       /\ \E t \in BagToSet(tasks') :
                              /\ Started(t) /\ t.pc = "promise_msg_persist" /\ t.node = n
                              /\ t.ballot_number = role'[n].last_accept_broadcast
                 /\ \A m \in Inflight("Promise") :
                        (/\ m.dest = n /\ Taken(m)
                         /\ m.ballot_number <= role[n].last_accept_broadcast) =>
                            /\ tasks' = tasks \/ \E t \in BagToSet(tasks') :
                                                    Started(t) /\ t.pc = "promise_msg_reject"
                            /\ sent' = sent
      ]_vars

\* C17 witness: a replica that broadcast Accept for one client request has since
\* taken another and still holds the ballot of that broadcast.
LastAcceptBroadcastCarriedWitness ==
    \E n \in Nodes :
        /\ role[n].kind = "Proposer"
        /\ Len(accept_log[n]) = 1
        /\ role[n].op # accept_log[n][1].op
        /\ role[n].last_accept_broadcast = accept_log[n][1].ballot_number
        /\ role[n].last_accept_broadcast > 0

\* C18 (Accepted only after the overwrite): a step that sends Accepted{B} in answer
\* to Accept{B, S} leaves the state machine of the sender at S; and the handler of
\* an Accept{B, S} at an Acceptor that finds B below highest_known_ballot_number
\* sends Error{PreconditionFailed} naming the Accept, sends no Accepted and leaves
\* the state machine alone.
AcceptedAfterOverwrite ==
    [][/\ \A e \in sent' \ sent : e.type = "Accepted" =>
              \E a \in sent :
                  /\ a.type = "Accept" /\ a.src = e.dest /\ a.dest = e.src
                  /\ a.ballot_number = e.ballot_number
                  /\ state_machine'[e.src] = a.value
       /\ \A t \in Running("accept_load") :
              (Left(t) /\ t.ballot_number < highest_known_ballot_number[t.node]) =>
                  /\ sent' \ sent =
                         {[type |-> "Error", src |-> t.node, dest |-> t.src,
                           msg_id |-> next_msg_id[t.node], in_reply_to |-> t.src_msg_id,
                           code |-> "PreconditionFailed"]}
                  /\ state_machine' = state_machine
                  /\ tasks' = tasks (-) SetToBag({t})
      ]_vars

\* C18 witness: one replica has stored the non-empty value of an Accept and
\* answered Accepted, and a replica has answered an Accept with Error.
AcceptedAfterOverwriteWitness ==
    /\ \E e, a \in sent :
           /\ e.type = "Accepted" /\ a.type = "Accept"
           /\ a.src = e.dest /\ a.dest = e.src /\ a.ballot_number = e.ballot_number
           /\ a.value # EmptyStore
    /\ \E e \in sent : e.type = "Error" /\ AnswersAccept(e)

\* The store s with key mapped to value, every other key as in s.
Mapped(s, key, value, after) ==
    /\ DOMAIN after = DOMAIN s \cup {key}
    /\ after[key] = value
    /\ \A k \in DOMAIN s \ {key} : after[k] = s[k]

\* C19 (operation application): for every request and every store over the
\* bounded keys and values, Read leaves the store alone and yields ReadOk with the
\* value of a present key and Error{KeyDoesNotExist} for an absent one; Write maps
\* the key to the value and yields WriteOk; Cas yields Error{KeyDoesNotExist} for
\* an absent key and Error{PreconditionFailed} for a current value other than
\* from, the store unchanged, and otherwise maps the key to to and yields CasOk;
\* every reply carries the msg_id of the request as in_reply_to; and a Read of k
\* applied after a Write of v to k returns v.
ApplyMatchesReference ==
    /\ \A i \in 1..Len(apply_log) :
           LET a == apply_log[i]
               S == a.before
               present == a.op.key \in DOMAIN S
           IN  /\ a.body.in_reply_to = a.op.msg_id
               /\ a.op.type = "Read" =>
                      /\ a.state = S
                      /\ present => a.body.type = "ReadOk" /\ a.body.value = S[a.op.key]
                      /\ ~present => a.body.type = "Error" /\ a.body.code = "KeyDoesNotExist"
               /\ a.op.type = "Write" =>
                      /\ Mapped(S, a.op.key, a.op.value, a.state)
                      /\ a.body.type = "WriteOk"
               /\ a.op.type = "Cas" =>
                      /\ ~present =>
                             /\ a.body.type = "Error" /\ a.body.code = "KeyDoesNotExist"
                             /\ a.state = S
                      /\ (present /\ S[a.op.key] # a.op.from) =>
                             /\ a.body.type = "Error" /\ a.body.code = "PreconditionFailed"
                             /\ a.state = S
                      /\ (present /\ S[a.op.key] = a.op.from) =>
                             /\ Mapped(S, a.op.key, a.op.to, a.state)
                             /\ a.body.type = "CasOk"
    /\ (/\ Len(apply_log) = 2
        /\ apply_log[1].op.type = "Write" /\ apply_log[2].op.type = "Read"
        /\ apply_log[1].op.key = apply_log[2].op.key)
           => /\ apply_log[2].body.type = "ReadOk"
              /\ apply_log[2].body.value = apply_log[1].op.value

\* C19 witness: a Cas that failed its precondition on a store holding another
\* value, followed by a Read of a key that is present.
ApplyMatchesReferenceWitness ==
    /\ Len(apply_log) = 2
    /\ apply_log[1].op.type = "Cas"
    /\ apply_log[1].body.type = "Error" /\ apply_log[1].body.code = "PreconditionFailed"
    /\ apply_log[2].op.type = "Read" /\ apply_log[2].body.type = "ReadOk"
    /\ apply_log[2].op.key = apply_log[1].op.key

\* The handlers of replica n that are inside the critical section on the role.
InRoleSection(n) == {t \in Running("promise_msg_persist") : t.node = n}

\* The envelopes whose handler starts by taking the role lock of replica n.
WaitsForRole(n) ==
    {m \in BagToSet(net) :
        m.dest = n /\ m.type \in ClientOpTypes \cup {"Promise", "Accept"}}

\* C20 (lock discipline): the role lock of a replica is held exactly while one of
\* its handlers is between taking it and writing the state machine under it; the
\* step that takes it and the step that writes the state machine and releases it
\* hand nothing to the transport, so every send and broadcast happens with the
\* lock released by its handler; no handler that needs the role starts while it
\* is held; and as long as an envelope or a handler is left, some handler can
\* take a step (no handler waits for a lock forever).
LockDiscipline ==
    /\ [](\A n \in Nodes :
            /\ role_lock[n] <=> InRoleSection(n) # {}
            /\ \A t \in InRoleSection(n) : CopiesIn(t, tasks) = 1
            /\ Cardinality(InRoleSection(n)) <= 1)
    /\ []((net # EmptyBag \/ tasks # EmptyBag) => ENABLED Next)
    /\ [][\A n \in Nodes :
            /\ role_lock[n] => \A m \in WaitsForRole(n) : ~Taken(m)
            /\ \A t \in InRoleSection(n) : Left(t) =>
                   /\ ~role_lock'[n]
                   /\ sent' = sent
                   /\ state_machine'[n] = t.state
            /\ (~role_lock[n] /\ role_lock'[n]) => sent' = sent
         ]_vars

\* C20 witness: a handler of a replica holds the role lock while an envelope for
\* the replica waits for it and another of its handlers is about to send.
LockDisciplineWitness ==
    \E n \in Nodes :
        /\ role_lock[n]
        /\ WaitsForRole(n) # {}
        /\ \E t \in BagToSet(tasks) :
               /\ t.node = n
               /\ t.pc \in {"propose_load", "promise_send", "promise_msg_reject",
                             "promise_msg_broadcast", "accept_store"}

====
